---- MODULE Spec2Model ----
(***************************************************************************)
(* Model of the Samsara fleet driver manager.                              *)
(*                                                                         *)
(*   Spec         one pass of DriverManager.process_driver_updates_from_csv*)
(*                over a change CSV, row by row, against the remote driver *)
(*                service reached through SamsaraAPI.                      *)
(*   SpecRequest  one SamsaraAPI._request: the tenacity retry loop around  *)
(*                requests.request, attempt by attempt.                    *)
(***************************************************************************)
EXTENDS Integers, Sequences, FiniteSets, TLC

VARIABLES
    csv_rows,           \* the rows of the change CSV, in file order
    headcount_arg,      \* the headcount_map keyword argument of the call
    usernames_file,     \* lines of USERNAMES_FILE (<< >>: missing or empty)
    drivers,            \* remote service: payroll id -> driver record or NoDriver
    phase,              \* position of the pass: "call", "loop", "done", "raised"
    idx,                \* 1-based position of the next row the reader yields
    operations_log,     \* DriverManager.operations_log, five buckets
    existing_usernames, \* DriverManager._existing_usernames
    api_calls,          \* every call made on the SamsaraAPI object, in order
    log_saves,          \* number of times _save_operations_log wrote the log
    row_exc,            \* history: what each handled row raised, None if nothing
    max_attempts,       \* SAMSARA_RETRY_ATTEMPTS of the request
    max_wait,           \* SAMSARA_RETRY_MAX_WAIT of the request
    responses,          \* what the service answers to the 1st, 2nd, ... HTTP call
    calls,              \* number of requests.request calls made so far
    slept,              \* backoff waits slept between the attempts
    req_state,          \* "idle", "sending", "returned", "raised"
    req_result,         \* value returned or error raised by _request
    csv_header,         \* main: the column names of the change CSV's first line
    main_args,          \* main: the parsed --dry-run and --validate-only flags
    main_result,        \* main: status returned or exception raised
    mappings,           \* MappingsManager: positions, locations, never_positions
    hire_record,        \* validate_new_hire: the record passed in
    hire_result,        \* validate_new_hire: the (bool, reason) returned
    sheet_columns,      \* load_headcount_data: column names of the sheet, in order
    sheet_ids,          \* load_headcount_data: per row, the cell of each candidate column
    payroll_id_column,  \* load_headcount_data: the keyword argument
    headcount_result,   \* load_headcount_data: keys of the map returned, or the error
    util_calls,         \* username_utils: the calls made on the file and what they returned
    location_mappings   \* sync_drivers_by_location: (payroll_id, tag) items in dict order

mgr_vars == <<csv_rows, headcount_arg, usernames_file, drivers, phase, idx,
              operations_log, existing_usernames, api_calls, log_saves, row_exc>>
req_vars == <<max_attempts, max_wait, responses, calls, slept, req_state, req_result>>
main_vars == <<csv_header, main_args, main_result>>
hire_vars == <<mappings, hire_record, hire_result>>
sheet_vars == <<sheet_columns, sheet_ids, payroll_id_column, headcount_result>>
vars == <<csv_rows, headcount_arg, usernames_file, drivers, phase, idx,
          operations_log, existing_usernames, api_calls, log_saves, row_exc,
          max_attempts, max_wait, responses, calls, slept, req_state, req_result,
          csv_header, main_args, main_result, mappings, hire_record, hire_result,
          sheet_columns, sheet_ids, payroll_id_column, headcount_result,
          util_calls, location_mappings>>

(***************************************************************************)
(* Bounds of the model.                                                    *)
(***************************************************************************)
MaxRows == 2
MaxAttemptCeiling == 5
MaxSheetRows == 2
MaxFileLines == 3
MaxMappings == 2
MaxUtilCalls == 3

(***************************************************************************)
(* Python values.                                                          *)
(***************************************************************************)
None == "<None>"
NoneValue == [none |-> TRUE]
NoDriver == NoneValue

\* str.lower() on the strings of the model.
Lower(s) ==
    CASE s = "Update" -> "update"
      [] s = "Purge" -> "purge"
      [] s = "JLee" -> "jlee"
      [] s = "Active" -> "active"
      [] s = "ACTIVE" -> "active"
      [] s = "Terminated" -> "terminated"
      [] OTHER -> s

\* str.strip() on the strings of the model: those with outer blanks are listed.
Strip(s) ==
    CASE s = " ACTIVE " -> "ACTIVE"
      [] s = " Driver " -> "Driver"
      [] s = " jlee " -> "jlee"
      [] s = " " -> ""
      [] s = " Route# " -> "Route#"
      [] OTHER -> s

\* Truth value of row.get(key): None and '' are falsy.
Truthy(v) == v # "" /\ v # None

\* dict.get(key, default)
Get(d, key, default) == IF key \in DOMAIN d THEN d[key] ELSE default

\* A one-key dict when cond holds, else the empty dict.
Opt(cond, key, value) == IF cond THEN key :> value ELSE <<>>

IsIn(x, seq) == \E i \in 1..Len(seq) : seq[i] = x

RECURSIVE SeqCount(_, _)
SeqCount(seq, op) ==
    IF seq = <<>> THEN 0
    ELSE (IF Head(seq).op = op THEN 1 ELSE 0) + SeqCount(Tail(seq), op)

(***************************************************************************)
(* The change CSV.                                                         *)
(***************************************************************************)
BlankRow ==
    [action |-> "", payroll_id |-> "", name |-> "", username |-> "",
     phone |-> "", license_number |-> "", license_state |-> "",
     location_tag_id |-> "", deactivation_reason |-> ""]

CreateRows ==
    { [BlankRow EXCEPT !.action = "create", !.name = "Jordan Lee",
                       !.payroll_id = p, !.username = u,
                       !.phone = IF p = "" THEN "" ELSE "555",
                       !.license_number = IF u = "" THEN "" ELSE "LN1",
                       !.license_state = IF u = "" THEN "" ELSE "TX",
                       !.location_tag_id = IF p = "" THEN "" ELSE "L1"]
        : p \in {"", "P1"}, u \in {"", "JLee"} }
    \cup { [BlankRow EXCEPT !.action = "create", !.payroll_id = "P1",
                            !.username = "JLee"] }

UpdateRows ==
    { [BlankRow EXCEPT !.action = "update", !.payroll_id = "P1"],
      [BlankRow EXCEPT !.action = "update", !.payroll_id = "P1",
                       !.location_tag_id = "L1"],
      [BlankRow EXCEPT !.action = "update", !.payroll_id = "P1",
                       !.phone = "555", !.location_tag_id = "L1"],
      [BlankRow EXCEPT !.action = "update", !.phone = "555"],
      [BlankRow EXCEPT !.action = "Update", !.payroll_id = "P1",
                       !.license_number = "LN1", !.license_state = "TX"] }

DeactivateRows ==
    { [BlankRow EXCEPT !.action = "deactivate", !.payroll_id = "P1",
                       !.deactivation_reason = r] : r \in {"", "quit"} }
    \cup { [BlankRow EXCEPT !.action = "deactivate"] }

OtherRows ==
    { BlankRow, [BlankRow EXCEPT !.action = "Purge", !.payroll_id = "P1"] }

RowSet == CreateRows \cup UpdateRows \cup DeactivateRows \cup OtherRows

RECURSIVE SeqsUpTo(_, _)
SeqsUpTo(S, n) ==
    IF n = 0 THEN { <<>> }
    ELSE LET shorter == SeqsUpTo(S, n - 1)
         IN shorter \cup { Append(s, x) : s \in { t \in shorter : Len(t) = n - 1 }, x \in S }

(***************************************************************************)
(* The headcount map a caller may pass.                                    *)
(***************************************************************************)
HcMap ==
    [P1 |-> [name |-> "Dana Jones", email |-> "d1@example.com",
             phone |-> "777", location_tag_id |-> "L9"]]

\* The keyword arguments of a call of process_driver_updates_from_csv.
NotPassed == [passed |-> FALSE]
Passed(map) == [passed |-> TRUE, map |-> map]

(***************************************************************************)
(* The remote service.                                                     *)
(***************************************************************************)
PayrollIds == {"P1"}

ExistingDriver(status) ==
    [id |-> "d1", name |-> "Old Name", phone |-> "", tagIds |-> <<"L0">>,
     driverActivationStatus |-> status]

InitDrivers ==
    { [p \in PayrollIds |-> NoDriver],
      [p \in PayrollIds |-> ExistingDriver("active")],
      [p \in PayrollIds |-> ExistingDriver("deactivated")] }

\* What one API call does: the outcome of find-by-external-id, of the
\* mutating call, and of the append to the usernames file.
ApiError == "HTTP 500"
RaisedRet == [raised |-> ApiError]
ApiOutcomes ==
    [find : {"ok", "raise"}, mutate : {"ok", "empty", "raise"}, save : BOOLEAN]

(***************************************************************************)
(* SamsaraAPI._request: send() under tenacity's retry, then                *)
(* raise_for_status and the decoding of the body.                          *)
(***************************************************************************)
RetryAttemptsDefault == 5
RetryMaxWaitDefault == 32

ConnectionFailure == [kind |-> "exception", type |-> "ConnectionError"]
Response(status, content) ==
    [kind |-> "response", status_code |-> status, content |-> content]

\* What the service may answer to one HTTP call.
HttpOutcomes ==
    { ConnectionFailure, Response(500, ""), Response(429, ""), Response(400, ""),
      Response(200, "{}"), Response(204, "") }

\* response.json() on the bodies of the model.
ParseJson(content) == CASE content = "{}" -> [dict |-> {}] [] OTHER -> [text |-> content]

NoResult == [kind |-> "none"]
Value(v) == [kind |-> "value", value |-> v]
Error(type, msg) == [kind |-> "error", type |-> type, msg |-> msg]

\* Variant: send() raises for 5xx only, a 429 response is returned.
SendRaisesOnly5xx(o) ==
    \/ o.kind = "exception"
    \/ /\ o.kind = "response"
       /\ o.status_code >= 500

\* Variant: send() raises for every error status, 4xx included.
SendRaisesAnyError(o) ==
    \/ o.kind = "exception"
    \/ /\ o.kind = "response"
       /\ o.status_code >= 400

\* send() raises: requests.request failed, or the status is 5xx or 429.
SendRaises(o) ==
    \/ o.kind = "exception"
    \/ /\ o.kind = "response"
       /\ (o.status_code >= 500 \/ o.status_code = 429)

\* The exception send() raises for such an outcome.
SendError(o) ==
    IF o.kind = "exception" THEN Error(o.type, "boom")
    ELSE Error("HTTPError", "HTTP " \o ToString(o.status_code))

\* retry_if_exception_type(requests.RequestException)
RetryIf(err) == err.type \in {"ConnectionError", "HTTPError"}

\* stop_after_attempt(max_attempts)
StopAfterAttempt(attempt_number, ceiling) == attempt_number >= ceiling

\* wait_exponential(multiplier=1, max=max_wait)
\* Variant: the backoff doubles without a cap.
WaitExponentialUncapped(attempt_number, cap) == 2 ^ (attempt_number - 1)

WaitExponential(attempt_number, cap) ==
    LET wait == 2 ^ (attempt_number - 1)
    IN IF wait < cap THEN wait ELSE cap

\* Variant: reraise=False, tenacity raises its own RetryError.
ReraiseWrapped(err) == Error("RetryError", "RetryError[" \o err.type \o "]")

\* reraise=True: the exception of the last attempt is raised as it is.
Reraise(err) == err

\* response.raise_for_status()
RaisesForStatus(o) == o.status_code >= 400 /\ o.status_code < 600

\* The value _request returns for a response that passed raise_for_status.
ResultOf(o) == IF o.content # "" THEN Value(ParseJson(o.content)) ELSE Value(NoneValue)

Sending == req_state = "sending" /\ calls < Len(responses)

\* An attempt fails with a retried exception and attempts remain: sleep, go on.
SendRetry ==
    /\ Sending
    /\ LET o == responses[calls + 1]
       IN /\ SendRaises(o) /\ RetryIf(SendError(o))
          /\ ~StopAfterAttempt(calls + 1, max_attempts)
          /\ slept' = Append(slept, WaitExponential(calls + 1, max_wait))
    /\ calls' = calls + 1
    /\ UNCHANGED <<max_attempts, max_wait, responses, req_state, req_result>>
    /\ UNCHANGED <<mgr_vars, main_vars, hire_vars, sheet_vars, util_calls, location_mappings>>

\* An attempt fails with a retried exception and the ceiling is reached.
SendGiveUp ==
    /\ Sending
    /\ LET o == responses[calls + 1]
       IN /\ SendRaises(o) /\ RetryIf(SendError(o))
          /\ StopAfterAttempt(calls + 1, max_attempts)
          /\ req_result' = Reraise(SendError(o))
    /\ calls' = calls + 1
    /\ req_state' = "raised"
    /\ UNCHANGED <<max_attempts, max_wait, responses, slept>>
    /\ UNCHANGED <<mgr_vars, main_vars, hire_vars, sheet_vars, util_calls, location_mappings>>

\* send() returns a response that raise_for_status rejects.
SendClientError ==
    /\ Sending
    /\ LET o == responses[calls + 1]
       IN /\ ~SendRaises(o) /\ RaisesForStatus(o)
          /\ req_result' = Error("HTTPError", ToString(o.status_code) \o " Client Error")
    /\ calls' = calls + 1
    /\ req_state' = "raised"
    /\ UNCHANGED <<max_attempts, max_wait, responses, slept>>
    /\ UNCHANGED <<mgr_vars, main_vars, hire_vars, sheet_vars, util_calls, location_mappings>>

\* send() returns a response that passes: decode the body or return None.
SendReturn ==
    /\ Sending
    /\ LET o == responses[calls + 1]
       IN /\ ~SendRaises(o) /\ ~RaisesForStatus(o)
          /\ req_result' = ResultOf(o)
    /\ calls' = calls + 1
    /\ req_state' = "returned"
    /\ UNCHANGED <<max_attempts, max_wait, responses, slept>>
    /\ UNCHANGED <<mgr_vars, main_vars, hire_vars, sheet_vars, util_calls, location_mappings>>

(***************************************************************************)
(* DriverManager: the state a row handler works on is the record           *)
(*   [log, file, drivers, calls]                                           *)
(* (operations_log, the usernames file, the remote drivers, the API calls  *)
(* made); a handler yields the new state and the exception it raised, None *)
(* when it returned normally.                                              *)
(***************************************************************************)
EmptyLog ==
    [created |-> <<>>, updated |-> <<>>, deactivated |-> <<>>,
     skipped |-> <<>>, errors |-> <<>>]

\* Variant: a new entry is put in front of the bucket.
AppendToFront(log, bucket, entry) == [log EXCEPT ![bucket] = <<entry>> \o @]

AppendTo(log, bucket, entry) == [log EXCEPT ![bucket] = Append(@, entry)]

\* get_summary_stats: the number of entries of each bucket.
GetSummaryStats(log) ==
    [drivers_created |-> Len(log.created),
     drivers_updated |-> Len(log.updated),
     drivers_deactivated |-> Len(log.deactivated),
     drivers_skipped |-> Len(log.skipped),
     errors |-> Len(log.errors)]

Returns(w) == [w |-> w, exc |-> None]
Raises(w, msg) == [w |-> w, exc |-> msg]

Called(w, call) == [w EXCEPT !.calls = Append(@, call)]

\* SamsaraAPI.find_driver_by_external_id as answered by the service.
FindDriver(w, pid) == IF pid \in DOMAIN w.drivers THEN w.drivers[pid] ELSE NoDriver
FindCall(w, pid, out) ==
    [op |-> "find_driver_by_external_id", key |-> "payrollId", value |-> pid,
     ret |-> IF out.find = "raise" THEN RaisedRet ELSE FindDriver(w, pid)]

\* What a mutating call hands back: the JSON body, None for an empty body,
\* or the error _request raised.
MutateRet(out, body) ==
    CASE out.mutate = "raise" -> RaisedRet
      [] out.mutate = "empty" -> NoneValue
      [] OTHER -> body

\* _load_existing_usernames: csv.DictReader takes the first line as header
\* and yields the others keyed by it; the 'username' value of each is
\* stripped and lowercased, blank ones are dropped.
LoadExistingUsernames(file, cache) ==
    IF file = <<>> THEN cache
    ELSE cache \cup
         ({ Lower(Strip(IF file[1] = "username" THEN file[i] ELSE "")) : i \in 2..Len(file) }
            \ {""})

\* _save_username_to_file: append one line; an I/O error is logged and swallowed.
SaveUsernameToFile(file, username, ok) == IF ok THEN Append(file, username) ELSE file

\* The record the service keeps for a driver created from a payload.
NewDriver(id, data) ==
    [id |-> id, name |-> data["name"], phone |-> Get(data, "phone", ""),
     tagIds |-> Get(data, "tagIds", <<>>),
     driverActivationStatus |-> data["driverActivationStatus"]]

\* The service applying a partial update to a driver record.
Patched(driver, data) ==
    [k \in DOMAIN driver \cup DOMAIN data |->
        IF k \in DOMAIN data THEN data[k] ELSE driver[k]]

\* The payload built by _create_driver_from_row.
CreatePayload(row) ==
    ("name" :> row["name"]) @@ ("driverActivationStatus" :> "active")
    @@ Opt(Truthy(Get(row, "username", None)), "username", row["username"])
    @@ Opt(Truthy(Get(row, "phone", None)), "phone", row["phone"])
    @@ Opt(Truthy(Get(row, "license_number", None)), "licenseNumber", row["license_number"])
    @@ Opt(Truthy(Get(row, "license_state", None)), "licenseState", row["license_state"])
    @@ Opt(Truthy(Get(row, "payroll_id", None)), "externalIds", [payrollId |-> row["payroll_id"]])
    @@ Opt(Truthy(Get(row, "location_tag_id", None)), "tagIds", <<row["location_tag_id"]>>)

\* Variant: the created entry is appended before create_driver is called.
CreateAndRecordEarly(w, row, now, out) ==
    LET data == CreatePayload(row)
        pid == Get(row, "payroll_id", None)
        id == "id" \o ToString(SeqCount(w.calls, "create_driver") + 1)
        w0 == [w EXCEPT !.log = AppendTo(@, "created",
                [driver_id |-> id, name |-> data["name"],
                 payroll_id |-> pid, timestamp |-> now])]
        w1 == Called(w0, [op |-> "create_driver", data |-> data,
                          ret |-> MutateRet(out, [id |-> id, name |-> data["name"]])])
    IN IF out.mutate = "raise" THEN Raises(w1, ApiError) ELSE Returns(w1)

\* Variant: a failed append to the usernames file escapes as an exception.
CreateAndRecordSaveRaises(w, row, now, out) ==
    LET data == CreatePayload(row)
        pid == Get(row, "payroll_id", None)
        id == "id" \o ToString(SeqCount(w.calls, "create_driver") + 1)
        w1 == Called(w, [op |-> "create_driver", data |-> data,
                         ret |-> MutateRet(out, [id |-> id, name |-> data["name"]])])
        w2 == IF Truthy(pid) /\ pid \in DOMAIN w1.drivers
                THEN [w1 EXCEPT !.drivers[pid] = NewDriver(id, data)]
                ELSE w1
        w3 == IF Truthy(Get(row, "username", None))
                THEN [w2 EXCEPT !.file = SaveUsernameToFile(@, row["username"], out.save)]
                ELSE w2
    IN IF out.mutate = "raise" THEN Raises(w1, ApiError)
       ELSE IF Truthy(Get(row, "username", None)) /\ ~out.save
            THEN Raises(w2, "[Errno 13] Permission denied")
       ELSE IF out.mutate = "empty"
            THEN Raises(w3, "'NoneType' object is not subscriptable")
       ELSE Returns([w3 EXCEPT !.log = AppendTo(@, "created",
                [driver_id |-> id, name |-> data["name"],
                 payroll_id |-> pid, timestamp |-> now])])

\* The tail of _create_driver_from_row, from the create_driver call on.
CreateAndRecord(w, row, now, out) ==
    LET data == CreatePayload(row)
        pid == Get(row, "payroll_id", None)
        id == "id" \o ToString(SeqCount(w.calls, "create_driver") + 1)
        w1 == Called(w, [op |-> "create_driver", data |-> data,
                         ret |-> MutateRet(out, [id |-> id, name |-> data["name"]])])
        w2 == IF Truthy(pid) /\ pid \in DOMAIN w1.drivers
                THEN [w1 EXCEPT !.drivers[pid] = NewDriver(id, data)]
                ELSE w1
        w3 == IF Truthy(Get(row, "username", None))
                THEN [w2 EXCEPT !.file = SaveUsernameToFile(@, row["username"], out.save)]
                ELSE w2
    IN IF out.mutate = "raise" THEN Raises(w1, ApiError)
       ELSE IF out.mutate = "empty"
            THEN Raises(w3, "'NoneType' object is not subscriptable")
       ELSE Returns([w3 EXCEPT !.log = AppendTo(@, "created",
                [driver_id |-> id, name |-> data["name"],
                 payroll_id |-> pid, timestamp |-> now])])

\* Variant: the driver found by the lookup is ignored.
CheckExistingIgnored(w, row, now, out) ==
    LET pid == Get(row, "payroll_id", None)
        w1 == Called(w, FindCall(w, pid, out))
    IN IF ~Truthy(pid) THEN CreateAndRecord(w, row, now, out)
       ELSE IF out.find = "raise" THEN Raises(w1, ApiError)
       ELSE CreateAndRecord(w1, row, now, out)

\* The existence check of _create_driver_from_row and what follows it.
CheckExistingThenCreate(w, row, now, out) ==
    LET pid == Get(row, "payroll_id", None)
        w1 == Called(w, FindCall(w, pid, out))
        existing == FindDriver(w1, pid)
    IN IF ~Truthy(pid) THEN CreateAndRecord(w, row, now, out)
       ELSE IF out.find = "raise" THEN Raises(w1, ApiError)
       ELSE IF existing # NoDriver
            THEN Returns([w1 EXCEPT !.log = AppendTo(@, "errors",
                    [row |-> row, error |-> "Driver already exists",
                     existing_driver_id |-> existing.id])])
       ELSE CreateAndRecord(w1, row, now, out)

\* Variant: the username is looked up in the cache as written, case and all.
CreateDriverFromRowCaseSensitive(w, row, now, out, cache) ==
    LET username == Get(row, "username", None)
    IN IF Truthy(username) /\ username \in cache
       THEN Returns([w EXCEPT !.log = AppendTo(@, "errors",
                [row |-> row,
                 error |-> "Username '" \o username \o "' already exists",
                 timestamp |-> now])])
       ELSE CheckExistingThenCreate(w, row, now, out)

\* _create_driver_from_row
CreateDriverFromRow(w, row, now, out, cache) ==
    LET username == Get(row, "username", None)
    IN IF Truthy(username) /\ Lower(Strip(username)) \in cache
       THEN Returns([w EXCEPT !.log = AppendTo(@, "errors",
                [row |-> row,
                 error |-> "Username '" \o username \o "' already exists",
                 timestamp |-> now])])
       ELSE CheckExistingThenCreate(w, row, now, out)

\* Variant: the row's tag is appended without looking at the current tags.
UpdatePayloadAlwaysAppend(row, driver) ==
    LET tag == Get(row, "location_tag_id", None)
        current_tags == Get(driver, "tagIds", <<>>)
    IN Opt(Truthy(Get(row, "phone", None)), "phone", row["phone"])
       @@ Opt(Truthy(Get(row, "license_number", None)), "licenseNumber", row["license_number"])
       @@ Opt(Truthy(Get(row, "license_state", None)), "licenseState", row["license_state"])
       @@ Opt(Truthy(tag), "tagIds", Append(current_tags, tag))

\* Variant: the row's tag replaces the current tags.
UpdatePayloadReplaceTags(row, driver) ==
    LET tag == Get(row, "location_tag_id", None)
    IN Opt(Truthy(Get(row, "phone", None)), "phone", row["phone"])
       @@ Opt(Truthy(Get(row, "license_number", None)), "licenseNumber", row["license_number"])
       @@ Opt(Truthy(Get(row, "license_state", None)), "licenseState", row["license_state"])
       @@ Opt(Truthy(tag), "tagIds", <<tag>>)

\* The payload built by _update_driver_from_row for a found driver.
UpdatePayload(row, driver) ==
    LET tag == Get(row, "location_tag_id", None)
        current_tags == Get(driver, "tagIds", <<>>)
    IN Opt(Truthy(Get(row, "phone", None)), "phone", row["phone"])
       @@ Opt(Truthy(Get(row, "license_number", None)), "licenseNumber", row["license_number"])
       @@ Opt(Truthy(Get(row, "license_state", None)), "licenseState", row["license_state"])
       @@ Opt(Truthy(tag), "tagIds",
              IF IsIn(tag, current_tags) THEN current_tags ELSE Append(current_tags, tag))

\* list(update_data.keys()): the keys in insertion order.
\* Variant: every updatable field is listed, sent or not.
PayloadKeysAll(data) == <<"phone", "licenseNumber", "licenseState", "tagIds">>

PayloadKeys(data) ==
    SelectSeq(<<"phone", "licenseNumber", "licenseState", "tagIds">>,
              LAMBDA k : k \in DOMAIN data)

\* Variant: no check of the payroll id before the lookup.
UpdateDriverFromRowNoCheck(w, row, now, out) ==
    LET pid == Get(row, "payroll_id", None)
        w1 == Called(w, FindCall(w, pid, out))
        driver == FindDriver(w1, pid)
    IN IF out.find = "raise" THEN Raises(w1, ApiError)
       ELSE IF driver = NoDriver
            THEN Raises(w1, "Driver with payroll ID " \o pid \o " not found")
       ELSE Returns(w1)

\* _update_driver_from_row
UpdateDriverFromRow(w, row, now, out) ==
    LET pid == Get(row, "payroll_id", None)
        w1 == Called(w, FindCall(w, pid, out))
        driver == FindDriver(w1, pid)
        data == UpdatePayload(row, driver)
        w2 == Called(w1, [op |-> "update_driver", driver_id |-> driver.id, data |-> data,
                          ret |-> MutateRet(out, Patched(driver, data))])
        w3 == [w2 EXCEPT !.drivers[pid] = Patched(driver, data)]
    IN IF ~Truthy(pid) THEN Raises(w, "Payroll ID required for updates")
       ELSE IF out.find = "raise" THEN Raises(w1, ApiError)
       ELSE IF driver = NoDriver
            THEN Raises(w1, "Driver with payroll ID " \o pid \o " not found")
       ELSE IF DOMAIN data = {} THEN Returns(w1)
       ELSE IF out.mutate = "raise" THEN Raises(w2, ApiError)
       ELSE Returns([w3 EXCEPT !.log = AppendTo(@, "updated",
                [driver_id |-> driver.id, name |-> driver.name,
                 payroll_id |-> pid, fields_updated |-> PayloadKeys(data),
                 timestamp |-> now])])

\* Variant: the driver's activation status is not looked at.
DeactivateDriverFromRowNoStatusCheck(w, row, now, out) ==
    LET pid == Get(row, "payroll_id", None)
        w1 == Called(w, FindCall(w, pid, out))
        driver == FindDriver(w1, pid)
        reason == Get(row, "deactivation_reason", "No reason provided")
        after == Patched(driver, [driverActivationStatus |-> "deactivated"])
        w2 == Called(w1, [op |-> "deactivate_driver", driver_id |-> driver.id,
                          reason |-> reason, ret |-> MutateRet(out, after)])
        w3 == [w2 EXCEPT !.drivers[pid] = after]
    IN IF ~Truthy(pid) THEN Raises(w, "Payroll ID required for deactivation")
       ELSE IF out.find = "raise" THEN Raises(w1, ApiError)
       ELSE IF driver = NoDriver
            THEN Raises(w1, "Driver with payroll ID " \o pid \o " not found")
       ELSE IF out.mutate = "raise" THEN Raises(w2, ApiError)
       ELSE Returns([w3 EXCEPT !.log = AppendTo(@, "deactivated",
                [driver_id |-> driver.id, name |-> driver.name,
                 payroll_id |-> pid, reason |-> reason, timestamp |-> now])])

\* _deactivate_driver_from_row
DeactivateDriverFromRow(w, row, now, out) ==
    LET pid == Get(row, "payroll_id", None)
        w1 == Called(w, FindCall(w, pid, out))
        driver == FindDriver(w1, pid)
        reason == Get(row, "deactivation_reason", "No reason provided")
        after == Patched(driver, [driverActivationStatus |-> "deactivated"])
        w2 == Called(w1, [op |-> "deactivate_driver", driver_id |-> driver.id,
                          reason |-> reason, ret |-> MutateRet(out, after)])
        w3 == [w2 EXCEPT !.drivers[pid] = after]
    IN IF ~Truthy(pid) THEN Raises(w, "Payroll ID required for deactivation")
       ELSE IF out.find = "raise" THEN Raises(w1, ApiError)
       ELSE IF driver = NoDriver
            THEN Raises(w1, "Driver with payroll ID " \o pid \o " not found")
       ELSE IF Get(driver, "driverActivationStatus", None) = "deactivated"
            THEN Returns(w1)
       ELSE IF out.mutate = "raise" THEN Raises(w2, ApiError)
       ELSE Returns([w3 EXCEPT !.log = AppendTo(@, "deactivated",
                [driver_id |-> driver.id, name |-> driver.name,
                 payroll_id |-> pid, reason |-> reason, timestamp |-> now])])

\* Variant: a row with an unknown action is passed over without a log entry.
UnknownActionSilent(w, row, now) == Returns(w)

\* The else branch of the loop body: an action that is none of the three.
UnknownAction(w, row, now) ==
    Returns([w EXCEPT !.log = AppendTo(@, "errors",
        [row |-> row,
         error |-> "Unknown action '" \o Lower(Get(row, "action", "")) \o "'",
         timestamp |-> now])])

\* The except clause of the loop body.
CatchRowError(r, row, now) ==
    IF r.exc = None THEN r.w
    ELSE [r.w EXCEPT !.log = AppendTo(@, "errors",
            [row |-> row, error |-> r.exc, timestamp |-> now])]

\* Variant: an exception leaves the loop, no later row is read.
NextIndexStopOnError(r, i) == IF r.exc = None THEN i + 1 ELSE Len(csv_rows) + 1

\* After a row, whatever it raised, the reader yields the next one.
NextIndex(r, i) == i + 1

\* The dispatch on the lowercased action.
DispatchRow(w, row, now, out, cache) ==
    LET action == Lower(Get(row, "action", ""))
    IN CASE action = "create" -> CreateDriverFromRow(w, row, now, out, cache)
         [] action = "update" -> UpdateDriverFromRow(w, row, now, out)
         [] action = "deactivate" -> DeactivateDriverFromRow(w, row, now, out)
         [] OTHER -> UnknownAction(w, row, now)

World == [log |-> operations_log, file |-> usernames_file,
          drivers |-> drivers, calls |-> api_calls]

\* One iteration of the loop of process_driver_updates_from_csv.
ProcessRow(out) ==
    \E r \in { DispatchRow(World, csv_rows[idx], idx, out, existing_usernames) } :
    \E w \in { CatchRowError(r, csv_rows[idx], idx) } :
       /\ operations_log' = w.log
       /\ usernames_file' = w.file
       /\ drivers' = w.drivers
       /\ api_calls' = w.calls
       /\ idx' = NextIndex(r, idx)
       /\ row_exc' = Append(row_exc, r.exc)
       /\ UNCHANGED <<csv_rows, headcount_arg, phase, existing_usernames, log_saves>>
       /\ UNCHANGED <<req_vars, main_vars, hire_vars, sheet_vars, util_calls, location_mappings>>

RowAction(i) == Lower(Get(csv_rows[i], "action", ""))

InLoop == phase = "loop" /\ idx <= Len(csv_rows)

\* The call binds its arguments: process_driver_updates_from_csv takes
\* csv_file only, so a headcount_map keyword raises TypeError before the body runs.
CallWithHeadcount ==
    /\ phase = "call"
    /\ headcount_arg.passed
    /\ phase' = "raised"
    /\ UNCHANGED <<csv_rows, headcount_arg, usernames_file, drivers, idx,
                   operations_log, existing_usernames, api_calls, log_saves, row_exc>>
    /\ UNCHANGED <<req_vars, main_vars, hire_vars, sheet_vars, util_calls, location_mappings>>

\* The head of process_driver_updates_from_csv: load the username cache, open the CSV.
StartPass ==
    /\ phase = "call"
    /\ ~headcount_arg.passed
    /\ existing_usernames' = LoadExistingUsernames(usernames_file, existing_usernames)
    /\ phase' = "loop"
    /\ UNCHANGED <<csv_rows, headcount_arg, usernames_file, drivers, idx,
                   operations_log, api_calls, log_saves, row_exc>>
    /\ UNCHANGED <<req_vars, main_vars, hire_vars, sheet_vars, util_calls, location_mappings>>

CreateRow ==
    /\ InLoop /\ RowAction(idx) = "create"
    /\ \E out \in ApiOutcomes : ProcessRow(out)

UpdateRow ==
    /\ InLoop /\ RowAction(idx) = "update"
    /\ \E out \in ApiOutcomes : ProcessRow(out)

DeactivateRow ==
    /\ InLoop /\ RowAction(idx) = "deactivate"
    /\ \E out \in ApiOutcomes : ProcessRow(out)

UnknownRow ==
    /\ InLoop /\ RowAction(idx) \notin {"create", "update", "deactivate"}
    /\ \E out \in ApiOutcomes : ProcessRow(out)

\* The reader is exhausted: _save_operations_log, then return the log.
FinishPass ==
    /\ phase = "loop" /\ idx > Len(csv_rows)
    /\ log_saves' = log_saves + 1
    /\ phase' = "done"
    /\ UNCHANGED <<csv_rows, headcount_arg, usernames_file, drivers, idx,
                   operations_log, existing_usernames, api_calls, row_exc>>
    /\ UNCHANGED <<req_vars, main_vars, hire_vars, sheet_vars, util_calls, location_mappings>>

InitUsernamesFiles == { <<>>, <<"username", "jlee">> }

\* The other entry points of the repository, not called.
MainIdle ==
    /\ csv_header = {}
    /\ main_args = [dry_run |-> FALSE, validate_only |-> FALSE]
    /\ main_result = NoResult

HireIdle ==
    /\ mappings = [positions |-> {}, locations |-> {}, never_positions |-> {}]
    /\ hire_record = <<>>
    /\ hire_result = NoResult

SheetIdle ==
    /\ sheet_columns = <<>> /\ sheet_ids = <<>>
    /\ payroll_id_column = None /\ headcount_result = NoResult

UtilIdle == util_calls = <<>>

SyncIdle == location_mappings = <<>>

RequestIdle ==
    /\ max_attempts = RetryAttemptsDefault /\ max_wait = RetryMaxWaitDefault
    /\ responses = <<>> /\ calls = 0 /\ slept = <<>>
    /\ req_state = "idle" /\ req_result = NoResult

Init ==
    /\ csv_rows \in SeqsUpTo(RowSet, MaxRows)
    /\ headcount_arg \in {NotPassed, Passed(HcMap)}
    /\ usernames_file \in InitUsernamesFiles
    /\ drivers \in InitDrivers
    /\ phase = "call"
    /\ idx = 1
    /\ operations_log = EmptyLog
    /\ existing_usernames = {}
    /\ api_calls = <<>>
    /\ log_saves = 0
    /\ row_exc = <<>>
    /\ RequestIdle
    /\ MainIdle /\ HireIdle /\ SheetIdle /\ UtilIdle /\ SyncIdle

Next ==
    \/ CallWithHeadcount
    \/ StartPass
    \/ CreateRow
    \/ UpdateRow
    \/ DeactivateRow
    \/ UnknownRow
    \/ FinishPass

Spec == Init /\ [][Next]_vars

ManagerIdle ==
    /\ csv_rows = <<>>
    /\ headcount_arg = NotPassed
    /\ usernames_file = <<>>
    /\ drivers = [p \in PayrollIds |-> NoDriver]
    /\ phase = "idle"
    /\ idx = 1
    /\ operations_log = EmptyLog
    /\ existing_usernames = {}
    /\ api_calls = <<>>
    /\ log_saves = 0
    /\ row_exc = <<>>

InitRequest ==
    /\ max_attempts \in 1..MaxAttemptCeiling
    /\ max_wait \in {4, RetryMaxWaitDefault}
    /\ responses \in { Append(r, Response(200, "{}")) : r \in [1..max_attempts -> HttpOutcomes] }
    /\ calls = 0
    /\ slept = <<>>
    /\ req_state = "sending"
    /\ req_result = NoResult
    /\ ManagerIdle
    /\ MainIdle /\ HireIdle /\ SheetIdle /\ UtilIdle /\ SyncIdle

NextRequest ==
    \/ SendRetry
    \/ SendGiveUp
    \/ SendClientError
    \/ SendReturn

SpecRequest == InitRequest /\ [][NextRequest]_vars

(***************************************************************************)
(* Properties of one pass over the change CSV (Spec).                      *)
(***************************************************************************)
Buckets == {"created", "updated", "deactivated", "skipped", "errors"}

TotalEntries(log) ==
    Len(log.created) + Len(log.updated) + Len(log.deactivated)
    + Len(log.skipped) + Len(log.errors)

Pid(i) == Get(csv_rows[i], "payroll_id", None)
NewCalls(before, after) == SubSeq(after, Len(before) + 1, Len(after))
MutatingOps == {"create_driver", "update_driver", "deactivate_driver"}

\* C1: when the pass has finished, the entries of the five buckets add up to
\* the number of rows read: every row left exactly one entry.
C1_EveryRowLeftOneEntry ==
    phase = "done" => TotalEntries(operations_log) = Len(csv_rows)

\* C2: a row whose handling raised left exactly one errors entry holding that
\* row and the exception's message, the rows are handled one after the other
\* in file order, and the pass ends only after the last row.
C2_RowErrorLoggedPassContinues ==
    /\ Len(row_exc) = idx - 1
    /\ idx <= Len(csv_rows) + 1
    /\ phase = "done" => Len(row_exc) = Len(csv_rows)
    /\ \A i \in 1..Len(row_exc) :
          row_exc[i] # None =>
             Cardinality({ k \in 1..Len(operations_log.errors) :
                 operations_log.errors[k] =
                     [row |-> csv_rows[i], error |-> row_exc[i], timestamp |-> i] }) = 1

C2_Witness ==
    /\ phase = "done" /\ Len(csv_rows) = 2
    /\ row_exc[1] = ApiError /\ row_exc[2] = None
    /\ Len(operations_log.errors) = 1
    /\ Len(operations_log.updated) = 1

\* C6: handling a create row with a non-empty name adds exactly one entry to
\* created or exactly one entry to errors, never both and never neither.
C6_CreateRowCreatedXorError ==
    [][ (InLoop /\ RowAction(idx) = "create" /\ csv_rows[idx].name # "") =>
          LET dc == Len(operations_log'.created) - Len(operations_log.created)
              de == Len(operations_log'.errors) - Len(operations_log.errors)
          IN (dc = 1 /\ de = 0) \/ (dc = 0 /\ de = 1) ]_vars

C6_Witness ==
    /\ phase = "done" /\ Len(csv_rows) = 2
    /\ \A i \in 1..2 : RowAction(i) = "create" /\ csv_rows[i].name # ""
    /\ Len(operations_log.created) = 1
    /\ Len(operations_log.errors) = 1
    /\ row_exc[2] = "'NoneType' object is not subscriptable"

\* C7: a create row whose username equals an entry of the username cache
\* ignoring case adds one errors entry, makes no API call and leaves the
\* usernames file as it was.
C7_DuplicateUsernameRejected ==
    [][ (/\ InLoop /\ RowAction(idx) = "create"
         /\ Truthy(csv_rows[idx].username)
         /\ \E u \in existing_usernames : Lower(u) = Lower(csv_rows[idx].username)) =>
          /\ Len(operations_log'.errors) = Len(operations_log.errors) + 1
          /\ operations_log'.errors[Len(operations_log'.errors)].row = csv_rows[idx]
          /\ operations_log'.created = operations_log.created
          /\ api_calls' = api_calls
          /\ usernames_file' = usernames_file ]_vars

C7_Witness ==
    /\ idx = 2 /\ RowAction(1) = "create"
    /\ csv_rows[1].username = "JLee" /\ "jlee" \in existing_usernames
    /\ Len(operations_log.errors) = 1
    /\ operations_log.errors[1].error = "Username 'JLee' already exists"
    /\ api_calls = <<>>

C9_UnresolvableRowIsError ==
    [][ (/\ InLoop /\ RowAction(idx) \in {"update", "deactivate"}
         /\ (~Truthy(Pid(idx)) \/ FindDriver(World, Pid(idx)) = NoDriver)) =>
          /\ Len(operations_log'.errors) = Len(operations_log.errors) + 1
          /\ operations_log'.errors[Len(operations_log'.errors)].row = csv_rows[idx]
          /\ \A b \in Buckets \ {"errors"} : operations_log'[b] = operations_log[b]
          /\ \A k \in 1..Len(NewCalls(api_calls, api_calls')) :
                NewCalls(api_calls, api_calls')[k].op \notin MutatingOps
          /\ ~Truthy(Pid(idx)) => api_calls' = api_calls ]_vars

C9_Witness ==
    /\ phase = "done" /\ Len(csv_rows) = 2
    /\ RowAction(1) = "update" /\ ~Truthy(Pid(1))
    /\ RowAction(2) = "deactivate" /\ Pid(2) = "P1"
    /\ row_exc = << "Payroll ID required for updates",
                    "Driver with payroll ID P1 not found" >>
    /\ Len(operations_log.errors) = 2
    /\ SeqCount(api_calls, "find_driver_by_external_id") = 1
    /\ Len(api_calls) = 1

\* C10: a pass given a headcount map makes, for every update row whose
\* payroll_id is in the map and whose phone and location_tag_id are blank,
\* an update_driver call for the found driver with the headcount phone,
\* location tag, email and name in its payload.
C10_HeadcountMergedIntoUpdate ==
    (phase \in {"done", "raised"} /\ headcount_arg.passed) =>
        \A i \in 1..Len(csv_rows) :
            (/\ RowAction(i) = "update"
             /\ Pid(i) \in DOMAIN headcount_arg.map
             /\ ~Truthy(csv_rows[i].phone)
             /\ ~Truthy(csv_rows[i].location_tag_id)
             /\ FindDriver(World, Pid(i)) # NoDriver) =>
                \E k \in 1..Len(api_calls) :
                    LET c == api_calls[k]
                        hc == headcount_arg.map[Pid(i)]
                    IN /\ c.op = "update_driver"
                       /\ c.driver_id = FindDriver(World, Pid(i)).id
                       /\ Get(c.data, "phone", None) = hc.phone
                       /\ IsIn(hc.location_tag_id, Get(c.data, "tagIds", <<>>))
                       /\ Get(c.data, "name", None) = hc.name
                       /\ Get(Get(c.data, "externalIds", <<>>), "email", None) = hc.email

(***************************************************************************)
(* Properties of one request (SpecRequest).                                *)
(***************************************************************************)
TransientFailure(o) ==
    \/ o = ConnectionFailure
    \/ o.kind = "response" /\ o.status_code \in (500..599) \cup {429}

Success2xx(o) == o.kind = "response" /\ o.status_code \in 200..299

ClientError4xx(o) == o.kind = "response" /\ o.status_code \in (400..499) \ {429}

LeadingTransient(k) == \A i \in 1..k : TransientFailure(responses[i])

\* C3: when the first k answers (k below the ceiling) are transient failures
\* and answer k+1 is a 2xx, the request returns that answer's result after
\* exactly k+1 HTTP calls.
C3_RetryUntilSuccess ==
    req_state # "idle" =>
      \A k \in 0..(max_attempts - 1) :
        (LeadingTransient(k) /\ Success2xx(responses[k + 1])) =>
            /\ calls <= k + 1
            /\ calls < k + 1 => req_state = "sending"
            /\ calls = k + 1 =>
                  /\ req_state = "returned"
                  /\ req_result = IF responses[k + 1].content = ""
                                   THEN Value(NoneValue)
                                   ELSE Value(ParseJson(responses[k + 1].content))

C3_Witness ==
    /\ req_state = "returned" /\ calls = 3 /\ max_attempts = 4
    /\ responses[1] = ConnectionFailure
    /\ responses[2] = Response(429, "")
    /\ responses[3] = Response(200, "{}")
    /\ req_result = Value([dict |-> {}])

\* C4: a 4xx answer other than 429 ends the request at once with an error:
\* as the first answer it makes the request one single HTTP call, whatever
\* the ceiling; and a further call is made only after a connection failure,
\* a 5xx or a 429.
C4_ClientErrorNotRetried ==
    req_state # "idle" =>
      /\ \A i \in 1..Len(responses) : calls > i => TransientFailure(responses[i])
      /\ \A k \in 0..(max_attempts - 1) :
            (LeadingTransient(k) /\ ClientError4xx(responses[k + 1])) =>
                /\ calls <= k + 1
                /\ calls < k + 1 => req_state = "sending"
                /\ calls = k + 1 => req_state = "raised" /\ req_result.kind = "error"

C4_Witness ==
    /\ req_state = "raised" /\ calls = 1 /\ max_attempts = RetryAttemptsDefault
    /\ responses[1] = Response(400, "")
    /\ req_result = Error("HTTPError", "400 Client Error")

\* C5: when every answer up to the ceiling N is a transient failure, the
\* request makes exactly N HTTP calls and then raises the error of the last
\* failed attempt itself; no request ever makes more than N calls.
C5_ExhaustedRaisesAttemptError ==
    req_state # "idle" =>
      /\ calls <= max_attempts
      /\ LeadingTransient(max_attempts) =>
            /\ calls < max_attempts => req_state = "sending"
            /\ calls = max_attempts =>
                  /\ req_state = "raised"
                  /\ req_result =
                        IF responses[max_attempts] = ConnectionFailure
                        THEN Error("ConnectionError", "boom")
                        ELSE Error("HTTPError",
                                   "HTTP " \o ToString(responses[max_attempts].status_code))

C5_Witness ==
    /\ req_state = "raised" /\ calls = RetryAttemptsDefault
    /\ max_attempts = RetryAttemptsDefault
    /\ LeadingTransient(max_attempts)
    /\ req_result = Error("HTTPError", "HTTP 500")

(***************************************************************************)
(* Further properties of one pass over the change CSV (Spec).              *)
(***************************************************************************)
RECURSIVE Occurrences(_, _)
Occurrences(x, seq) ==
    IF seq = <<>> THEN 0
    ELSE (IF Head(seq) = x THEN 1 ELSE 0) + Occurrences(x, Tail(seq))

\* The calls of one kind among the calls a step added.
NewCallsOf(op, before, after) ==
    SelectSeq(NewCalls(before, after), LAMBDA c : c.op = op)

\* The driver the service holds for the row about to be handled.
TargetDriver == FindDriver(World, Pid(idx))

\* C11: the tagIds an update row sends contain the row's location tag exactly
\* once, also when the driver already holds that tag or the same row was
\* applied before.
C11_TagMergeIdempotent ==
    [][ (InLoop /\ RowAction(idx) = "update" /\ Truthy(csv_rows[idx].location_tag_id)) =>
          \A k \in 1..Len(NewCallsOf("update_driver", api_calls, api_calls')) :
             Occurrences(csv_rows[idx].location_tag_id,
                 NewCallsOf("update_driver", api_calls, api_calls')[k].data["tagIds"]) = 1 ]_vars

C11_Witness ==
    /\ phase = "done" /\ Len(csv_rows) = 2
    /\ csv_rows[1] = csv_rows[2] /\ RowAction(1) = "update"
    /\ csv_rows[1].location_tag_id = "L1"
    /\ Len(operations_log.updated) = 2
    /\ NewCallsOf("update_driver", <<>>, api_calls)[1].data["tagIds"] = <<"L0", "L1">>
    /\ NewCallsOf("update_driver", <<>>, api_calls)[2].data["tagIds"] = <<"L0", "L1">>

\* C12: a deactivate row whose driver the service holds as already
\* deactivated makes no deactivate_driver call and adds nothing to the
\* deactivated bucket.
C12_AlreadyDeactivatedUntouched ==
    [][ (/\ InLoop /\ RowAction(idx) = "deactivate" /\ Truthy(Pid(idx))
         /\ TargetDriver # NoDriver
         /\ TargetDriver.driverActivationStatus = "deactivated") =>
          /\ NewCallsOf("deactivate_driver", api_calls, api_calls') = <<>>
          /\ operations_log'.deactivated = operations_log.deactivated ]_vars

C12_Witness ==
    /\ phase = "done" /\ Len(csv_rows) = 2
    /\ \A i \in 1..2 : RowAction(i) = "deactivate" /\ Pid(i) = "P1"
    /\ row_exc = <<None, None>>
    /\ Len(operations_log.deactivated) = 1
    /\ SeqCount(api_calls, "deactivate_driver") = 1
    /\ SeqCount(api_calls, "find_driver_by_external_id") = 2
    /\ api_calls[3].ret.driverActivationStatus = "deactivated"

\* C13: a create row with a blank name leaves an errors entry with the
\* message 'Driver name is required for creation', and create_driver is
\* never called with a blank name.
C13_BlankNameCreateRejected ==
    /\ \A i \in 1..(idx - 1) :
          (RowAction(i) = "create" /\ ~Truthy(csv_rows[i].name)) =>
             \E k \in 1..Len(operations_log.errors) :
                /\ operations_log.errors[k].row = csv_rows[i]
                /\ operations_log.errors[k].error = "Driver name is required for creation"
    /\ \A k \in 1..Len(api_calls) :
          api_calls[k].op = "create_driver" => Truthy(api_calls[k].data["name"])

\* C14: a row whose lowercased action is none of create, update, deactivate
\* adds exactly one errors entry carrying the row, and makes no API call.
C14_UnknownActionIsError ==
    [][ (InLoop /\ RowAction(idx) \notin {"create", "update", "deactivate"}) =>
          /\ Len(operations_log'.errors) = Len(operations_log.errors) + 1
          /\ SubSeq(operations_log'.errors, 1, Len(operations_log.errors))
                = operations_log.errors
          /\ operations_log'.errors[Len(operations_log'.errors)].row = csv_rows[idx]
          /\ \A b \in Buckets \ {"errors"} : operations_log'[b] = operations_log[b]
          /\ api_calls' = api_calls ]_vars

C14_Witness ==
    /\ phase = "done" /\ Len(csv_rows) = 2
    /\ csv_rows[1].action = "" /\ csv_rows[2].action = "Purge"
    /\ Len(operations_log.errors) = 2
    /\ operations_log.errors[1].row = csv_rows[1]
    /\ operations_log.errors[2].row = csv_rows[2]
    /\ row_exc = <<None, None>>
    /\ api_calls = <<>>

\* The optional fields of a create payload and the row columns they come from.
CreateOptionalFields ==
    { <<"username", "username">>, <<"phone", "phone">>,
      <<"licenseNumber", "license_number">>, <<"licenseState", "license_state">>,
      <<"externalIds", "payroll_id">>, <<"tagIds", "location_tag_id">> }

\* C15: the payload a create row hands to create_driver holds an optional
\* field exactly when the row's column is non-empty, holds no empty string,
\* and always holds name and driverActivationStatus = 'active'.
C15_CreatePayloadFields ==
    [][ (InLoop /\ RowAction(idx) = "create") =>
          \A k \in 1..Len(NewCallsOf("create_driver", api_calls, api_calls')) :
             LET data == NewCallsOf("create_driver", api_calls, api_calls')[k].data
             IN /\ \A f \in CreateOptionalFields :
                      f[1] \in DOMAIN data <=> Truthy(Get(csv_rows[idx], f[2], None))
                /\ "name" \in DOMAIN data
                /\ Get(data, "driverActivationStatus", None) = "active"
                /\ \A f \in DOMAIN data \ {"externalIds", "tagIds"} : data[f] # ""
                /\ "externalIds" \in DOMAIN data => data["externalIds"].payrollId # ""
                /\ "tagIds" \in DOMAIN data =>
                      \A t \in 1..Len(data["tagIds"]) : data["tagIds"][t] # "" ]_vars

\* C16: on a create row with a username, the usernames file changes only
\* after create_driver has returned, and only by appending the row's
\* username; when create_driver returned a driver the row gets one created
\* entry and no errors entry and the pass moves on, whether or not the
\* append took place.
C16_UsernameSaveBestEffort ==
    [][ (InLoop /\ RowAction(idx) = "create" /\ Truthy(csv_rows[idx].username)) =>
          LET nc == NewCallsOf("create_driver", api_calls, api_calls')
          IN /\ (nc = <<>> \/ nc[1].ret = RaisedRet) => usernames_file' = usernames_file
             /\ (nc # <<>> /\ nc[1].ret \notin {RaisedRet, NoneValue}) =>
                   /\ usernames_file' \in
                         { usernames_file, Append(usernames_file, csv_rows[idx].username) }
                   /\ operations_log'.created =
                         Append(operations_log.created,
                                [driver_id |-> nc[1].ret.id, name |-> nc[1].ret.name,
                                 payroll_id |-> Pid(idx), timestamp |-> idx])
                   /\ operations_log'.errors = operations_log.errors
                   /\ row_exc'[idx] = None
                   /\ idx' = idx + 1 ]_vars

\* A pass of two rows whose first create succeeded although its username
\* could not be appended to the file, and whose second row was still handled.
C16_Witness ==
    /\ phase = "done" /\ Len(csv_rows) = 2
    /\ RowAction(1) = "create" /\ csv_rows[1].username = "JLee"
    /\ RowAction(2) = "deactivate"
    /\ Len(operations_log.created) = 1
    /\ operations_log.errors = <<>>
    /\ usernames_file = <<>>
    /\ \E k \in 1..Len(api_calls) : api_calls[k].op = "create_driver"
    /\ Len(operations_log.deactivated) = 1

\* C17: a deactivate row whose driver is found and still active calls
\* deactivate_driver once, with the row's deactivation_reason when that is
\* non-empty and with 'No reason provided' otherwise; the deactivated entry
\* records the reason that was sent.
C17_DeactivationReasonOrDefault ==
    [][ (/\ InLoop /\ RowAction(idx) = "deactivate" /\ Truthy(Pid(idx))
         /\ TargetDriver # NoDriver
         /\ TargetDriver.driverActivationStatus = "active"
         /\ \A k \in 1..Len(NewCallsOf("find_driver_by_external_id", api_calls, api_calls')) :
               NewCallsOf("find_driver_by_external_id", api_calls, api_calls')[k].ret # RaisedRet) =>
          LET nc == NewCallsOf("deactivate_driver", api_calls, api_calls')
              expected == IF Truthy(Get(csv_rows[idx], "deactivation_reason", None))
                            THEN csv_rows[idx].deactivation_reason
                            ELSE "No reason provided"
          IN /\ Len(nc) = 1
             /\ nc[1].reason = expected
             /\ nc[1].ret # RaisedRet =>
                   /\ Len(operations_log'.deactivated) = Len(operations_log.deactivated) + 1
                   /\ operations_log'.deactivated[Len(operations_log'.deactivated)].reason
                         = nc[1].reason ]_vars

\* The updatable fields of a driver record and the row columns they come from.
UpdateFields ==
    << <<"phone", "phone">>, <<"licenseNumber", "license_number">>,
       <<"licenseState", "license_state">>, <<"tagIds", "location_tag_id">> >>

\* The value a driver record holds for a field, None when it has none.
Current(driver, f) ==
    IF f \in DOMAIN driver THEN driver[f] ELSE IF f = "tagIds" THEN <<>> ELSE None

\* The update row at hand is one whose update_driver call was made and returned.
UpdateSucceeds ==
    /\ InLoop /\ RowAction(idx) = "update"
    /\ NewCallsOf("update_driver", api_calls, api_calls') # <<>>
    /\ NewCallsOf("update_driver", api_calls, api_calls')[1].ret # RaisedRet

\* C18 as stated: the updated entry of a successful update row lists a field
\* exactly when the update changed its value on the driver record.
C18_FieldsUpdatedAreChanged ==
    [][ UpdateSucceeds =>
          /\ Len(operations_log'.updated) = Len(operations_log.updated) + 1
          /\ \A i \in 1..Len(UpdateFields) :
                IsIn(UpdateFields[i][1],
                     operations_log'.updated[Len(operations_log'.updated)].fields_updated)
                <=> Current(drivers'[Pid(idx)], UpdateFields[i][1])
                       # Current(TargetDriver, UpdateFields[i][1]) ]_vars

\* C18 amended: the updated entry of a successful update row lists exactly
\* the fields sent to update_driver, which are those whose row column is
\* non-empty, in the order phone, licenseNumber, licenseState, tagIds,
\* whether or not the value sent differs from the record's current value.
C18_FieldsUpdatedAreSent ==
    [][ UpdateSucceeds =>
          LET sent == SelectSeq(UpdateFields,
                                LAMBDA f : Truthy(Get(csv_rows[idx], f[2], None)))
              data == NewCallsOf("update_driver", api_calls, api_calls')[1].data
          IN /\ Len(operations_log'.updated) = Len(operations_log.updated) + 1
             /\ operations_log'.updated[Len(operations_log'.updated)].fields_updated
                   = [i \in 1..Len(sent) |-> sent[i][1]]
             /\ \A i \in 1..Len(UpdateFields) :
                   UpdateFields[i][1] \in DOMAIN data
                   <=> Truthy(Get(csv_rows[idx], UpdateFields[i][2], None)) ]_vars

\* The same phone and tag row handled twice: the second update changes
\* nothing on the record and still lists both fields.
C18_Witness ==
    /\ phase = "done" /\ Len(csv_rows) = 2 /\ csv_rows[1] = csv_rows[2]
    /\ RowAction(1) = "update"
    /\ csv_rows[1].phone = "555" /\ csv_rows[1].location_tag_id = "L1"
    /\ Len(operations_log.updated) = 2
    /\ operations_log.updated[2].fields_updated = <<"phone", "tagIds">>
    /\ Len(api_calls) = 4
    /\ api_calls[3].ret.phone = "555"
    /\ api_calls[3].ret.tagIds = <<"L0", "L1">>
    /\ api_calls[4].data["tagIds"] = <<"L0", "L1">>

\* C19: on an update row with a location tag, the tagIds sent to
\* update_driver hold every tag the driver had before and the row's tag.
C19_TagsAdditive ==
    [][ (InLoop /\ RowAction(idx) = "update" /\ Truthy(csv_rows[idx].location_tag_id)) =>
          \A k \in 1..Len(NewCallsOf("update_driver", api_calls, api_calls')) :
             LET sent == NewCallsOf("update_driver", api_calls, api_calls')[k].data["tagIds"]
             IN /\ \A t \in 1..Len(TargetDriver.tagIds) : IsIn(TargetDriver.tagIds[t], sent)
                /\ IsIn(csv_rows[idx].location_tag_id, sent) ]_vars

\* A driver tagged L0 was sent L0 and L1 by a single tag row.
C19_Witness ==
    /\ phase = "done" /\ Len(csv_rows) = 1
    /\ RowAction(1) = "update" /\ csv_rows[1].location_tag_id = "L1"
    /\ Len(api_calls) = 2
    /\ api_calls[1].ret.tagIds = <<"L0">>
    /\ api_calls[2].op = "update_driver"
    /\ api_calls[2].data["tagIds"] = <<"L0", "L1">>
    /\ drivers["P1"].tagIds = <<"L0", "L1">>

\* The summary key of each bucket.
StatKey ==
    [created |-> "drivers_created", updated |-> "drivers_updated",
     deactivated |-> "drivers_deactivated", skipped |-> "drivers_skipped",
     errors |-> "errors"]

\* Each bucket keeps what it held and gains at most the entry of the row at
\* hand; the log is saved by a step of its own, after the last row.
LogStep ==
    /\ \A b \in Buckets :
          /\ Len(operations_log'[b]) >= Len(operations_log[b])
          /\ SubSeq(operations_log'[b], 1, Len(operations_log[b])) = operations_log[b]
          /\ \A k \in (Len(operations_log[b]) + 1)..Len(operations_log'[b]) :
                /\ InLoop
                /\ "timestamp" \in DOMAIN operations_log'[b][k] =>
                      operations_log'[b][k].timestamp = idx
                /\ "row" \in DOMAIN operations_log'[b][k] =>
                      operations_log'[b][k].row = csv_rows[idx]
    /\ TotalEntries(operations_log') <= TotalEntries(operations_log) + 1
    /\ log_saves' # log_saves =>
          /\ phase = "loop" /\ idx = Len(csv_rows) + 1
          /\ log_saves = 0 /\ log_saves' = 1
          /\ operations_log' = operations_log

\* The summary counts are the bucket lengths, timestamps within a bucket
\* ascend, and the log has been saved exactly when the pass is done.
LogState ==
    /\ DOMAIN GetSummaryStats(operations_log) = { StatKey[b] : b \in Buckets }
    /\ \A b \in Buckets :
          /\ GetSummaryStats(operations_log)[StatKey[b]] = Len(operations_log[b])
          /\ \A j, k \in 1..Len(operations_log[b]) :
                (/\ j < k
                 /\ "timestamp" \in DOMAIN operations_log[b][j]
                 /\ "timestamp" \in DOMAIN operations_log[b][k]) =>
                   operations_log[b][j].timestamp < operations_log[b][k].timestamp
    /\ log_saves = (IF phase = "done" THEN 1 ELSE 0)
    /\ phase = "done" => idx = Len(csv_rows) + 1

\* C20: the operations log is append-only during a pass: a step never
\* removes or alters an entry, each bucket only grows and keeps row order,
\* get_summary_stats gives each bucket's current length, and the log is
\* saved once, after the last row.
C20_LogAppendOnlySavedOnce == []LogState /\ [][LogStep]_vars

\* A finished pass of two different rows that both failed: the errors
\* bucket holds their entries in row order and the log was saved once.
C20_Witness ==
    /\ phase = "done" /\ log_saves = 1 /\ Len(csv_rows) = 2
    /\ csv_rows[1] # csv_rows[2]
    /\ Len(operations_log.errors) = 2
    /\ operations_log.errors[1].row = csv_rows[1]
    /\ operations_log.errors[2].row = csv_rows[2]
    /\ GetSummaryStats(operations_log).errors = 2
    /\ GetSummaryStats(operations_log).drivers_created = 0

\* C21: every entry of every bucket of the operations log carries a timestamp.
C21_EveryEntryTimestamped ==
    \A b \in Buckets : \A k \in 1..Len(operations_log[b]) :
       "timestamp" \in DOMAIN operations_log[b][k]

(***************************************************************************)
(* main: one run of the command line entry point (SpecMain)                *)
(***************************************************************************)
\* The names config.py defines at module level.
ConfigNames ==
    {"SAMSARA_API_KEY", "SAMSARA_BASE_URL", "USE_OUTLOOK", "SMTP_SERVER",
     "SMTP_PORT", "SMTP_USERNAME", "SMTP_PASSWORD", "EMAIL_FROM", "EMAIL_TO",
     "EMAIL_CC", "INPUT_DIR", "DATA_DIR", "LOG_DIR", "MAPPINGS_DIR",
     "USERNAMES_FILE", "DRY_RUN_DEFAULT", "VALIDATE_BEFORE_PROCESS",
     "LOCATION_TAG_MAPPINGS"}

\* The config attributes main reads while it builds the argument parser.
ParserDefaults == <<"HEADCOUNT_FILE", "DRY_RUN_DEFAULT">>

\* The parameters process_driver_updates_from_csv accepts besides self.
ProcessParams == {"csv_file"}

RequiredColumns ==
    {"action", "payroll_id", "name", "username", "phone", "license_number",
     "license_state", "location_tag_id", "deactivation_reason"}

\* validate_csv: a ValueError when a required column is missing from the header.
ValidateCsv(header) ==
    IF RequiredColumns \ header # {}
      THEN Error("ValueError", "CSV missing columns")
      ELSE Value(NoneValue)

\* main from the validation on (lines 72-104).
MainBody(header, args) ==
    IF ValidateCsv(header).kind = "error" THEN Value(1)
    ELSE IF args.validate_only THEN Value(0)
    ELSE IF args.dry_run THEN Value(0)
    ELSE IF ~({"headcount_map"} \subseteq ProcessParams)
         THEN Error("TypeError", "unexpected keyword argument 'headcount_map'")
    ELSE Value(0)

\* main: the parser's defaults are read from config before anything else.
Main(header, args) ==
    IF \E i \in 1..Len(ParserDefaults) : ParserDefaults[i] \notin ConfigNames
      THEN LET i == CHOOSE i \in 1..Len(ParserDefaults) :
                       /\ ParserDefaults[i] \notin ConfigNames
                       /\ \A j \in 1..(i - 1) : ParserDefaults[j] \in ConfigNames
           IN Error("AttributeError",
                    "module 'config' has no attribute '" \o ParserDefaults[i] \o "'")
      ELSE MainBody(header, args)

RunMain ==
    /\ main_result = NoResult
    /\ main_result' = Main(csv_header, main_args)
    /\ UNCHANGED <<csv_header, main_args>>
    /\ UNCHANGED <<mgr_vars, req_vars, hire_vars, sheet_vars, util_calls, location_mappings>>

\* Headers of change CSVs: complete, with an extra column, lacking one or
\* two columns, and the header of an empty file.
HeaderSet ==
    { RequiredColumns, RequiredColumns \cup {"notes"},
      RequiredColumns \ {"deactivation_reason"},
      RequiredColumns \ {"action", "name"}, {} }

InitMain ==
    /\ csv_header \in HeaderSet
    /\ main_args \in [dry_run : BOOLEAN, validate_only : BOOLEAN]
    /\ main_result = NoResult
    /\ csv_rows \in SeqsUpTo(RowSet, 1)
    /\ headcount_arg = NotPassed
    /\ usernames_file \in InitUsernamesFiles
    /\ drivers \in InitDrivers
    /\ phase = "idle"
    /\ idx = 1
    /\ operations_log = EmptyLog
    /\ existing_usernames = {}
    /\ api_calls = <<>>
    /\ log_saves = 0
    /\ row_exc = <<>>
    /\ RequestIdle /\ HireIdle /\ SheetIdle /\ UtilIdle /\ SyncIdle

NextMain == RunMain

SpecMain == InitMain /\ [][NextMain]_vars

\* C22: when the change CSV lacks a required column, main returns a
\* non-zero status, and the run makes no API call, no write to the
\* usernames file and no log entry.
C22_MissingColumnStopsRun ==
    [][ (RequiredColumns \ csv_header # {}) =>
          /\ main_result'.kind = "value"
          /\ main_result'.value # 0
          /\ api_calls' = <<>>
          /\ usernames_file' = usernames_file
          /\ operations_log' = EmptyLog /\ log_saves' = 0 ]_vars

\* C23: for a change CSV with every required column and a run that is
\* neither dry nor validate-only, main handles every row, the log is saved
\* for the report, and main returns status 0.
C23_FullRunReturnsZero ==
    [][ (/\ RequiredColumns \subseteq csv_header
         /\ ~main_args.dry_run /\ ~main_args.validate_only) =>
          /\ main_result' = Value(0)
          /\ idx' = Len(csv_rows) + 1
          /\ log_saves' = 1 ]_vars

(***************************************************************************)
(* MappingsManager.validate_new_hire on one record (SpecHire)              *)
(***************************************************************************)
\* is_position_allowed: the position is not in the exclusion set.
IsPositionAllowed(m, position) == position \notin m.never_positions

\* Variant: the unknown-position rule is tried before the exclusion rule.
ValidateNewHireUnknownFirst(m, record) ==
    LET position == Strip(Get(record, "Position", ""))
        location == Strip(Get(record, "Location_Desc", ""))
        status == Lower(Strip(Get(record, "Employee_Status", "")))
    IN IF status # "active" THEN <<FALSE, "Inactive employee">>
       ELSE IF position \notin DOMAIN m.positions THEN <<FALSE, "Unknown position">>
       ELSE IF ~IsPositionAllowed(m, position) THEN <<FALSE, "Position excluded">>
       ELSE IF location \notin DOMAIN m.locations THEN <<FALSE, "Unknown location">>
       ELSE <<TRUE, "">>

ValidateNewHire(m, record) ==
    LET position == Strip(Get(record, "Position", ""))
        location == Strip(Get(record, "Location_Desc", ""))
        status == Lower(Strip(Get(record, "Employee_Status", "")))
    IN IF status # "active" THEN <<FALSE, "Inactive employee">>
       ELSE IF ~IsPositionAllowed(m, position) THEN <<FALSE, "Position excluded">>
       ELSE IF position \notin DOMAIN m.positions THEN <<FALSE, "Unknown position">>
       ELSE IF location \notin DOMAIN m.locations THEN <<FALSE, "Unknown location">>
       ELSE <<TRUE, "">>

CallValidateNewHire ==
    /\ hire_result = NoResult
    /\ hire_result' = Value(ValidateNewHire(mappings, hire_record))
    /\ UNCHANGED <<mappings, hire_record>>
    /\ UNCHANGED <<mgr_vars, req_vars, main_vars, sheet_vars, util_calls, location_mappings>>

\* Mapping files as loaded: keys are stripped, an id may be blank.
MappingsSet ==
    { [positions |-> ("Driver" :> "T1") @@ ("Janitor" :> ""),
       locations |-> ("Austin" :> <<"L1", "CST">>),
       never_positions |-> {"Janitor", "Intern"}],
      [positions |-> ("Driver" :> "T1"),
       locations |-> <<>>,
       never_positions |-> {}] }

\* Headcount records: each of the three fields absent or one of its spellings.
HireRecords ==
    { Opt(p # None, "Position", p) @@ Opt(l # None, "Location_Desc", l)
        @@ Opt(s # None, "Employee_Status", s) :
        p \in {None, "Driver", " Driver ", "Janitor", "Intern", "Pilot"},
        l \in {None, "Austin", "Mars"},
        s \in {None, "Active", " ACTIVE ", "active", "Terminated"} }

InitHire ==
    /\ mappings \in MappingsSet
    /\ hire_record \in HireRecords
    /\ hire_result = NoResult
    /\ ManagerIdle /\ RequestIdle /\ MainIdle /\ SheetIdle /\ UtilIdle /\ SyncIdle

NextHire == CallValidateNewHire

SpecHire == InitHire /\ [][NextHire]_vars

\* The spellings of 'active' among the statuses, and the rules on a record.
ActiveSpellings == {"active", "Active", "ACTIVE", " ACTIVE "}
HireStatusOk == Get(hire_record, "Employee_Status", "") \in ActiveSpellings
HirePosition == IF Get(hire_record, "Position", "") = " Driver " THEN "Driver"
                ELSE Get(hire_record, "Position", "")
HireNotExcluded == HirePosition \notin mappings.never_positions
HirePositionKnown == HirePosition \in DOMAIN mappings.positions
HireLocationKnown == Get(hire_record, "Location_Desc", "") \in DOMAIN mappings.locations

\* C24: validate_new_hire gives the reason of the first failing rule in the
\* order status, exclusion, known position, known location, and (True, '')
\* exactly when all four rules pass.
C24_FirstFailingRule ==
    hire_result # NoResult =>
       /\ hire_result.value =
            (IF ~HireStatusOk THEN <<FALSE, "Inactive employee">>
             ELSE IF ~HireNotExcluded THEN <<FALSE, "Position excluded">>
             ELSE IF ~HirePositionKnown THEN <<FALSE, "Unknown position">>
             ELSE IF ~HireLocationKnown THEN <<FALSE, "Unknown location">>
             ELSE <<TRUE, "">>)
       /\ hire_result.value[1] <=>
            (HireStatusOk /\ HireNotExcluded /\ HirePositionKnown /\ HireLocationKnown)

\* An active record whose position is both excluded and unknown was turned
\* down for the exclusion.
C24_Witness ==
    /\ hire_result = Value(<<FALSE, "Position excluded">>)
    /\ hire_record["Position"] = "Intern"
    /\ "Intern" \notin DOMAIN mappings.positions
    /\ hire_record["Employee_Status"] = " ACTIVE "

(***************************************************************************)
(* Backoff of one request (SpecRequest)                                    *)
(***************************************************************************)
RECURSIVE SumSeq(_)
SumSeq(seq) == IF seq = <<>> THEN 0 ELSE Head(seq) + SumSeq(Tail(seq))

\* C25: the wait slept before retry k is 2^(k-1) capped at max_wait, there
\* are at most max_attempts - 1 waits, none exceeds max_wait, and their sum
\* is at most max_attempts * max_wait.
C25_BackoffExponentialCapped ==
    /\ Len(slept) <= max_attempts - 1
    /\ \A k \in 1..Len(slept) :
          /\ slept[k] = (IF 2 ^ (k - 1) <= max_wait THEN 2 ^ (k - 1) ELSE max_wait)
          /\ slept[k] <= max_wait
    /\ SumSeq(slept) <= max_attempts * max_wait

\* A request that gave up after five attempts with max_wait 4: the fourth
\* wait was held at the cap.
C25_Witness ==
    /\ req_state = "raised" /\ max_attempts = 5 /\ max_wait = 4
    /\ calls = 5
    /\ slept = <<1, 2, 4, 4>>

(***************************************************************************)
(* load_headcount_data on one sheet (SpecSheet)                            *)
(***************************************************************************)
\* Cells as pandas hands them over: NaN for an empty cell, a float, an
\* int, or a string.
NaN == [t |-> "nan"]
FloatCell(whole, frac) == [t |-> "float", whole |-> whole, frac |-> frac]
IntCell(v) == [t |-> "int", n |-> v]
StrCell(v) == [t |-> "str", s |-> v]
IsNa(cell) == cell.t = "nan"

\* The identifier columns tried in turn when none is given.
CandidateColumns ==
    <<"Payroll_ID", "Payroll ID", "Employee_ID", "Employee ID", "Route#">>

\* df.columns after the names are stripped.
StrippedColumns(columns) == { Strip(columns[i]) : i \in 1..Len(columns) }

\* The identifier column chosen, None when there is none.
IdColumn(columns, given) ==
    IF Truthy(given) /\ given \in StrippedColumns(columns) THEN given
    ELSE IF \E i \in 1..Len(CandidateColumns) : CandidateColumns[i] \in StrippedColumns(columns)
         THEN CandidateColumns[CHOOSE i \in 1..Len(CandidateColumns) :
                  /\ CandidateColumns[i] \in StrippedColumns(columns)
                  /\ \A j \in 1..(i - 1) : CandidateColumns[j] \notin StrippedColumns(columns)]
    ELSE None

\* Variant: a float identifier keeps its decimals.
PidStrKeepDecimals(cell) ==
    CASE cell.t = "float" -> ToString(cell.whole) \o "." \o ToString(cell.frac)
      [] cell.t = "int" -> ToString(cell.n)
      [] OTHER -> cell.s

\* str(pid) after a whole float was turned into an int.
PidStr(cell) ==
    CASE cell.t = "float" /\ cell.frac = 0 -> ToString(cell.whole)
      [] cell.t = "float" -> ToString(cell.whole) \o "." \o ToString(cell.frac)
      [] cell.t = "int" -> ToString(cell.n)
      [] OTHER -> cell.s

\* The loop over the rows: a row with a NaN identifier is passed over, a
\* later row with the same identifier replaces the earlier record.
RECURSIVE HeadcountMapping(_, _, _, _)
HeadcountMapping(rows, id_col, i, mapping) ==
    IF i > Len(rows) THEN mapping
    ELSE IF IsNa(rows[i][id_col]) THEN HeadcountMapping(rows, id_col, i + 1, mapping)
    ELSE HeadcountMapping(rows, id_col, i + 1,
            [k \in DOMAIN mapping \cup {PidStr(rows[i][id_col])} |->
                IF k = PidStr(rows[i][id_col]) THEN [sheet_row |-> i] ELSE mapping[k]])

LoadHeadcountData(columns, rows, given) ==
    LET id_col == IdColumn(columns, given)
    IN IF ~Truthy(id_col)
         THEN Error("ValueError", "Payroll ID column not found in spreadsheet")
         ELSE Value(HeadcountMapping(rows, id_col, 1, <<>>))

CallLoadHeadcountData ==
    /\ headcount_result = NoResult
    /\ headcount_result' = LoadHeadcountData(sheet_columns, sheet_ids, payroll_id_column)
    /\ UNCHANGED <<sheet_columns, sheet_ids, payroll_id_column>>
    /\ UNCHANGED <<mgr_vars, req_vars, main_vars, hire_vars, util_calls, location_mappings>>

Cells == { NaN, FloatCell(613, 0), FloatCell(613, 5), IntCell(7), StrCell("A12") }

\* Sheets without an identifier column, with two candidates in the other
\* order, with a padded candidate name, and with a candidate after another column.
ColumnsSet ==
    { <<"Name">>, <<"Employee ID", "Payroll_ID">>, <<" Route# ", "Badge">>,
      <<"Badge", "Employee_ID">> }

InitSheet ==
    /\ sheet_columns \in ColumnsSet
    /\ sheet_ids \in SeqsUpTo([StrippedColumns(sheet_columns) -> Cells], MaxSheetRows)
    /\ payroll_id_column \in {None, "", "Badge", "Employee_ID", "Payroll ID"}
    /\ headcount_result = NoResult
    /\ ManagerIdle /\ RequestIdle /\ MainIdle /\ HireIdle /\ UtilIdle /\ SyncIdle

NextSheet == CallLoadHeadcountData

SpecSheet == InitSheet /\ [][NextSheet]_vars

\* The column the claim names for a sheet and a keyword argument.
ClaimedIdColumn ==
    LET has(c) == \E i \in 1..Len(sheet_columns) :
                     sheet_columns[i] = c \/ sheet_columns[i] = " " \o c \o " "
    IN CASE payroll_id_column \notin {None, ""} /\ has(payroll_id_column) -> payroll_id_column
         [] has("Payroll_ID") -> "Payroll_ID"
         [] has("Payroll ID") -> "Payroll ID"
         [] has("Employee_ID") -> "Employee_ID"
         [] has("Employee ID") -> "Employee ID"
         [] has("Route#") -> "Route#"
         [] OTHER -> None

\* The string form the claim gives to an identifier.
ClaimedKey(cell) ==
    CASE cell = FloatCell(613, 0) -> "613"
      [] cell = FloatCell(613, 5) -> "613.5"
      [] cell = IntCell(7) -> "7"
      [] OTHER -> "A12"

\* C26: load_headcount_data uses the given identifier column when the sheet
\* has it, else the first present of the fixed list, raises ValueError when
\* there is none, and returns a map whose keys are the string forms of the
\* non-blank identifiers of that column.
C26_IdentifierColumnAndKeys ==
    headcount_result # NoResult =>
       IF ClaimedIdColumn = None
         THEN headcount_result.kind = "error" /\ headcount_result.type = "ValueError"
         ELSE /\ headcount_result.kind = "value"
              /\ DOMAIN headcount_result.value =
                    { ClaimedKey(sheet_ids[i][ClaimedIdColumn]) :
                        i \in { j \in 1..Len(sheet_ids) : sheet_ids[j][ClaimedIdColumn] # NaN } }

\* A sheet with Employee ID before Payroll_ID, read without a given column:
\* Payroll_ID was taken, 613.0 became '613' and the blank row gave no record.
C26_Witness ==
    /\ headcount_result # NoResult /\ headcount_result.kind = "value"
    /\ sheet_columns = <<"Employee ID", "Payroll_ID">>
    /\ payroll_id_column = None
    /\ Len(sheet_ids) = 2
    /\ sheet_ids[1]["Payroll_ID"] = FloatCell(613, 0)
    /\ sheet_ids[1]["Employee ID"] = StrCell("A12")
    /\ sheet_ids[2]["Payroll_ID"] = NaN
    /\ sheet_ids[2]["Employee ID"] = IntCell(7)
    /\ DOMAIN headcount_result.value = {"613"}

(***************************************************************************)
(* Usernames and remote changes within one pass (Spec)                     *)
(***************************************************************************)
\* The username of the row that left the k-th created entry.
CreatedUsername(k) == csv_rows[operations_log.created[k].timestamp].username

\* C27: no two rows of one pass that ended in the created bucket carry
\* usernames that are equal ignoring case.
C27_CreatedUsernamesDistinct ==
    \A j, k \in 1..Len(operations_log.created) :
       (j < k /\ Truthy(CreatedUsername(j)) /\ Truthy(CreatedUsername(k))) =>
          Lower(Strip(CreatedUsername(j))) # Lower(Strip(CreatedUsername(k)))

\* The success bucket of each mutating call.
SuccessBucket ==
    [create_driver |-> "created", update_driver |-> "updated",
     deactivate_driver |-> "deactivated"]

\* C28: when a mutating call made for a row completes without raising,
\* whatever it returned, the row gets an entry in the matching success
\* bucket and none in errors.
C28_AppliedChangeRecorded ==
    [][ InLoop =>
          \A k \in 1..Len(NewCalls(api_calls, api_calls')) :
             LET c == NewCalls(api_calls, api_calls')[k]
             IN (c.op \in MutatingOps /\ c.ret # RaisedRet) =>
                   /\ operations_log'.errors = operations_log.errors
                   /\ Len(operations_log'[SuccessBucket[c.op]])
                         = Len(operations_log[SuccessBucket[c.op]]) + 1 ]_vars

(***************************************************************************)
(* username_utils on the usernames file (SpecUsernames)                    *)
(***************************************************************************)
\* csv.DictReader over the file: the first line is the header, empty lines
\* are passed over, and each other line is a row whose 'username' value is
\* the line when the header is 'username' and '' (the default of row.get)
\* otherwise.
RECURSIVE UsernameRows(_, _)
UsernameRows(file, i) ==
    IF i > Len(file) THEN <<>>
    ELSE IF file[i] = "" THEN UsernameRows(file, i + 1)
    ELSE <<IF file[1] = "username" THEN file[i] ELSE "">> \o UsernameRows(file, i + 1)

\* The usernames of the model in the order sorted() gives them.
SortedUsernames == <<"JLee", "amy", "jlee">>
Sorted(S) == SelectSeq(SortedUsernames, LAMBDA u : u \in S)

\* check_duplicates: the stripped usernames whose lowercase form was seen before.
RECURSIVE Duplicates(_, _, _)
Duplicates(rows, i, seen) ==
    IF i > Len(rows) THEN <<>>
    ELSE (IF Lower(Strip(rows[i])) \in seen THEN <<Strip(rows[i])>> ELSE <<>>)
         \o Duplicates(rows, i + 1, seen \cup {Lower(Strip(rows[i]))})

CheckDuplicatesOf(file) == Duplicates(UsernameRows(file, 2), 1, {})

\* clean_usernames_file: the set of stripped non-empty usernames, written
\* back sorted under a header; the number of rows read minus the size of the set.
UniqueUsernames(file) ==
    { Strip(UsernameRows(file, 2)[i]) : i \in 1..Len(UsernameRows(file, 2)) } \ {""}
CleanedFile(file) == <<"username">> \o Sorted(UniqueUsernames(file))
Removed(file) == Len(UsernameRows(file, 2)) - Cardinality(UniqueUsernames(file))

CleanUsernamesFile ==
    /\ Len(util_calls) < MaxUtilCalls
    /\ usernames_file' = CleanedFile(usernames_file)
    /\ util_calls' = Append(util_calls,
          [op |-> "clean_usernames_file", ret |-> Removed(usernames_file)])
    /\ UNCHANGED <<csv_rows, headcount_arg, drivers, phase, idx, operations_log,
                   existing_usernames, api_calls, log_saves, row_exc>>
    /\ UNCHANGED <<req_vars, main_vars, hire_vars, sheet_vars, location_mappings>>

CheckDuplicates ==
    /\ Len(util_calls) < MaxUtilCalls
    /\ util_calls' = Append(util_calls,
          [op |-> "check_duplicates", dups |-> CheckDuplicatesOf(usernames_file)])
    /\ UNCHANGED <<mgr_vars, req_vars, main_vars, hire_vars, sheet_vars, location_mappings>>

\* Lines a usernames file can hold below its header.
UsernameLines == {"JLee", "jlee", " jlee ", "amy", "", " "}

\* Files with the header, an empty file, and a file written without a header.
UsernamesFiles ==
    { <<"username">> \o body : body \in SeqsUpTo(UsernameLines, MaxFileLines) }
    \cup { <<>>, <<"JLee", "jlee">> }

InitUsernames ==
    /\ usernames_file \in UsernamesFiles
    /\ util_calls = <<>>
    /\ csv_rows = <<>>
    /\ headcount_arg = NotPassed
    /\ drivers = [p \in PayrollIds |-> NoDriver]
    /\ phase = "idle"
    /\ idx = 1
    /\ operations_log = EmptyLog
    /\ existing_usernames = {}
    /\ api_calls = <<>>
    /\ log_saves = 0
    /\ row_exc = <<>>
    /\ RequestIdle /\ MainIdle /\ HireIdle /\ SheetIdle /\ SyncIdle

NextUsernames ==
    \/ CleanUsernamesFile
    \/ CheckDuplicates

SpecUsernames == InitUsernames /\ [][NextUsernames]_vars

\* C29: once clean_usernames_file has run, check_duplicates returns an
\* empty list, the file holds no blank entry, and a further
\* clean_usernames_file removes nothing.
C29_CleanLeavesNoDuplicates ==
    \A k \in 1..Len(util_calls) :
       (\E j \in 1..(k - 1) : util_calls[j].op = "clean_usernames_file") =>
          /\ util_calls[k].op = "check_duplicates" => util_calls[k].dups = <<>>
          /\ util_calls[k].op = "clean_usernames_file" => util_calls[k].ret = 0
          /\ \A i \in 2..Len(usernames_file) : usernames_file[i] \notin {"", " "}

(***************************************************************************)
(* sync_drivers_by_location over a mapping (SpecSync)                      *)
(***************************************************************************)
\* Variant: an exception for an id is swallowed without a log entry.
SyncOneSilent(w, payroll_id, location_tag_id, now, out) ==
    LET w1 == Called(w, FindCall(w, payroll_id, out))
        driver == FindDriver(w1, payroll_id)
        after == Patched(driver, [tagIds |-> <<location_tag_id>>])
        w2 == Called(w1, [op |-> "update_driver_location", driver_id |-> driver.id,
                          data |-> [tagIds |-> <<location_tag_id>>],
                          ret |-> MutateRet(out, after)])
    IN IF out.find = "raise" THEN w1
       ELSE IF driver = NoDriver THEN w1
       ELSE IF out.mutate = "raise" THEN w2
       ELSE [w2 EXCEPT !.drivers[payroll_id] = after,
                       !.log = AppendTo(@, "updated",
                          [driver_id |-> driver.id, name |-> driver.name,
                           payroll_id |-> payroll_id, fields_updated |-> <<"location">>,
                           new_location_tag |-> location_tag_id, timestamp |-> now])]

\* The body of the loop of sync_drivers_by_location for one item, its
\* try/except included.
SyncOne(w, payroll_id, location_tag_id, now, out) ==
    LET w1 == Called(w, FindCall(w, payroll_id, out))
        driver == FindDriver(w1, payroll_id)
        after == Patched(driver, [tagIds |-> <<location_tag_id>>])
        w2 == Called(w1, [op |-> "update_driver_location", driver_id |-> driver.id,
                          data |-> [tagIds |-> <<location_tag_id>>],
                          ret |-> MutateRet(out, after)])
        failed(wf) == [wf EXCEPT !.log = AppendTo(@, "errors",
                          [payroll_id |-> payroll_id, error |-> ApiError,
                           timestamp |-> now])]
    IN IF out.find = "raise" THEN failed(w1)
       ELSE IF driver = NoDriver THEN w1
       ELSE IF out.mutate = "raise" THEN failed(w2)
       ELSE [w2 EXCEPT !.drivers[payroll_id] = after,
                       !.log = AppendTo(@, "updated",
                          [driver_id |-> driver.id, name |-> driver.name,
                           payroll_id |-> payroll_id, fields_updated |-> <<"location">>,
                           new_location_tag |-> location_tag_id, timestamp |-> now])]

InSync == phase = "sync" /\ idx <= Len(location_mappings)

SyncNext ==
    /\ InSync
    /\ \E out \in ApiOutcomes :
       \E w \in { SyncOne(World, location_mappings[idx][1], location_mappings[idx][2],
                          idx, out) } :
          /\ operations_log' = w.log
          /\ drivers' = w.drivers
          /\ api_calls' = w.calls
    /\ idx' = idx + 1
    /\ UNCHANGED <<csv_rows, headcount_arg, usernames_file, phase,
                   existing_usernames, log_saves, row_exc>>
    /\ UNCHANGED <<req_vars, main_vars, hire_vars, sheet_vars, util_calls, location_mappings>>

SyncReturn ==
    /\ phase = "sync" /\ idx > Len(location_mappings)
    /\ phase' = "done"
    /\ UNCHANGED <<csv_rows, headcount_arg, usernames_file, drivers, idx,
                   operations_log, existing_usernames, api_calls, log_saves, row_exc>>
    /\ UNCHANGED <<req_vars, main_vars, hire_vars, sheet_vars, util_calls, location_mappings>>

\* The payroll ids of the mapping and the driver the service has for one.
SyncIds == {"P1", "P2", "P3"}
DriverOf(pid) == [ExistingDriver("active") EXCEPT !.id = "d-" \o pid]

\* Mappings of up to MaxMappings items with distinct payroll ids.
LocationMappings ==
    { m \in SeqsUpTo(SyncIds \X {"L1", "L2"}, MaxMappings) :
        \A i, j \in 1..Len(m) : i # j => m[i][1] # m[j][1] }

InitSync ==
    /\ location_mappings \in LocationMappings
    /\ drivers \in { [p \in SyncIds |-> IF p \in S THEN DriverOf(p) ELSE NoDriver] :
                       S \in SUBSET {"P1", "P2"} }
    /\ phase = "sync"
    /\ idx = 1
    /\ csv_rows = <<>>
    /\ headcount_arg = NotPassed
    /\ usernames_file = <<>>
    /\ operations_log = EmptyLog
    /\ existing_usernames = {}
    /\ api_calls = <<>>
    /\ log_saves = 0
    /\ row_exc = <<>>
    /\ RequestIdle /\ MainIdle /\ HireIdle /\ SheetIdle /\ UtilIdle

NextSync ==
    \/ SyncNext
    \/ SyncReturn

SpecSync == InitSync /\ [][NextSync]_vars

\* What the step for the item at hand called.
SyncFinds == NewCallsOf("find_driver_by_external_id", api_calls, api_calls')
SyncUpdates == NewCallsOf("update_driver_location", api_calls, api_calls')
SyncRaised ==
    \/ SyncFinds[1].ret = RaisedRet
    \/ (SyncUpdates # <<>> /\ SyncUpdates[1].ret = RaisedRet)

\* C30: each item of the mapping is handled on its own: an exception adds
\* one errors entry for the id and the loop goes on; an id whose driver is
\* found and updated gets one updated entry and one update call; an id
\* without a driver gets no update call.
C30_SyncHandlesEachId ==
    [][ InSync =>
          LET pid == location_mappings[idx][1]
          IN /\ idx' = idx + 1 /\ phase' = "sync"
             /\ Len(SyncFinds) = 1 /\ Len(SyncUpdates) <= 1
             /\ SyncRaised =>
                   /\ Len(operations_log'.errors) = Len(operations_log.errors) + 1
                   /\ operations_log'.errors[Len(operations_log'.errors)].payroll_id = pid
                   /\ operations_log'.updated = operations_log.updated
             /\ (~SyncRaised /\ drivers[pid] # NoDriver) =>
                   /\ Len(SyncUpdates) = 1
                   /\ SyncUpdates[1].driver_id = drivers[pid].id
                   /\ Len(operations_log'.updated) = Len(operations_log.updated) + 1
                   /\ operations_log'.updated[Len(operations_log'.updated)].payroll_id = pid
                   /\ operations_log'.errors = operations_log.errors
             /\ (~SyncRaised /\ drivers[pid] = NoDriver) =>
                   /\ SyncUpdates = <<>>
                   /\ operations_log' = operations_log ]_vars

\* A mapping of two ids: the first failed and left an errors entry, the
\* second was still updated.
C30_Witness ==
    /\ phase = "done" /\ Len(location_mappings) = 2
    /\ Len(operations_log.errors) = 1
    /\ operations_log.errors[1].payroll_id = location_mappings[1][1]
    /\ Len(operations_log.updated) = 1
    /\ operations_log.updated[1].payroll_id = location_mappings[2][1]
    /\ Len(SelectSeq(api_calls, LAMBDA c : c.op = "update_driver_location")) = 1

====
